---------------------------- MODULE Spec2Model ----------------------------
(***************************************************************************)
(* A model of src/libraries/playlist/PlaylistLoader.ts: the Load / Save    *)
(* entry points, the format detector, the map resolver with its            *)
(* concurrently completing catalog lookups, the save-direction projection  *)
(* and the legacy-file migration, over a small filesystem.                 *)
(***************************************************************************)
EXTENDS Integers, Sequences, FiniteSets, TLC

VARIABLES
    fs,               \* the filesystem: path -> file content, or Absent
    filepath,         \* Load's argument filepath
    force,            \* Load's argument forceConvertIfNeeded
    progress,         \* the progress sink: [status, total, done]
    pc,               \* the position of the running call
    buffer,           \* Load's local buffer
    oldFormat,        \* Load's local oldFormat
    playlist,         \* Load's local playlist (IPlaylist)
    tasks,            \* the resolver's map tasks, one per input map
    order,            \* indices of the map tasks, in the order they completed
    output,           \* the resolver's output / Load's local output
    done,             \* ConvertPlaylistFile's local done
    result,           \* what Load returned
    saveArg,          \* Save's argument playlist, for a direct call of Save
    saveRet,          \* what the direct call of Save returned
    blisterPlaylist,  \* Save's local blisterPlaylist
    peer,             \* the locals of a second, concurrent call of Load
    fs0,              \* the filesystem as it was before the call
    progress0         \* the progress sink as it was before the call

vars == <<fs, filepath, force, progress, pc, buffer, oldFormat, playlist,
          tasks, order, output, done, result, saveArg, saveRet,
          blisterPlaylist, peer, fs0, progress0>>

-----------------------------------------------------------------------------
(* Bounds *)

\* the largest number of maps of a playlist
MaxMaps == 2

-----------------------------------------------------------------------------
(* Values *)

\* JavaScript's undefined and null, and a catalog entry, as tagged records
Undefined == [tag |-> "undefined"]
Null == [tag |-> "null"]
Entry(k, h) == [tag |-> "entry", key |-> k, hash |-> h]

\* a local that has not been assigned yet
Unset == [tag |-> "unset"]

PLAYLIST_EXTENSION_NAME == "blist"

\* ProgressStatus
NotStarted == "NotStarted"
Running == "Running"
Completed == "Completed"

\* PlaylistMapImportError
BeatmapTypeZipNotSupported == "BeatmapTypeZipNotSupported"
BeatmapTypeLevelIdNotSupported == "BeatmapTypeLevelIdNotSupported"
BeatmapTypeUnknown == "BeatmapTypeUnknown"
NoError == "undefined"

-----------------------------------------------------------------------------
(* Strings of characters, byte buffers and their hex renderings.  A string *)
(* is a sequence of one-character strings, a Buffer a sequence of bytes.   *)

HexDigits == <<"0", "1", "2", "3", "4", "5", "6", "7",
               "8", "9", "a", "b", "c", "d", "e", "f">>

\* String.prototype.toLowerCase, on one character
ToLowerChar(c) ==
    CASE c = "A" -> "a" [] c = "B" -> "b" [] c = "C" -> "c"
      [] c = "D" -> "d" [] c = "E" -> "e" [] c = "F" -> "f"
      [] OTHER -> c

\* hash.toLowerCase()
ToLowerCase(s) == [i \in 1..Len(s) |-> ToLowerChar(s[i])]

\* the value of a hex digit of either case, -1 for any other character
HexVal(c) ==
    IF \E d \in 1..16 : HexDigits[d] = ToLowerChar(c)
    THEN (CHOOSE d \in 1..16 : HexDigits[d] = ToLowerChar(c)) - 1
    ELSE -1

\* Buffer.from(s, 'hex'): two digits a byte, cut at the first pair that is
\* not two hex digits (a trailing single digit is dropped)
RECURSIVE BufferFromHex(_)
BufferFromHex(s) ==
    IF Len(s) < 2 \/ HexVal(s[1]) < 0 \/ HexVal(s[2]) < 0
    THEN <<>>
    ELSE <<16 * HexVal(s[1]) + HexVal(s[2])>>
             \o BufferFromHex(SubSeq(s, 3, Len(s)))

\* buffer.toString('hex'): two lowercase digits a byte
RECURSIVE BufferToHex(_)
BufferToHex(b) ==
    IF b = <<>>
    THEN <<>>
    ELSE <<HexDigits[(b[1] \div 16) + 1], HexDigits[(b[1] % 16) + 1]>>
             \o BufferToHex(Tail(b))

\* key.toString(16): lowercase hex, no padding
RECURSIVE NumberToHex(_)
NumberToHex(n) ==
    IF n < 16
    THEN <<HexDigits[n + 1]>>
    ELSE NumberToHex(n \div 16) \o <<HexDigits[(n % 16) + 1]>>

-----------------------------------------------------------------------------
(* The beatmap catalog (BeatSaverAPI.Singleton) *)

\* the catalog's entries; a hash may come back in upper case
Catalog == { Entry(<<"1", "f">>, <<"A", "b">>),
             Entry(<<"2">>, <<"0", "1">>) }

\* getBeatmapByKey(key): the entry, or undefined when there is none
GetBeatmapByKey(key) ==
    IF \E e \in Catalog : e.key = key
    THEN CHOOSE e \in Catalog : e.key = key
    ELSE Undefined

\* getBeatmapByHash(hash): the entry, or undefined when there is none
GetBeatmapByHash(hash) ==
    IF \E e \in Catalog : ToLowerCase(e.hash) = hash
    THEN CHOOSE e \in Catalog : ToLowerCase(e.hash) = hash
    ELSE Undefined

\* how a lookup can end: the catalog answers, or the request fails
LookupOutcomes == {"answered", "failed"}

\* what a lookup gives back: a request that fails at the transport or API
\* level gives undefined, as a lookup that finds nothing does
LookupValue(answer, outcome) ==
    IF outcome = "failed" THEN Undefined ELSE answer

-----------------------------------------------------------------------------
(* Playlists *)

BeatmapTypes == {"Key", "Hash", "Zip", "LevelID", "Other"}

\* IBeatmap values: by key 0x1f (in the catalog), by hash ab (in the
\* catalog), by hash 10 (not in the catalog), a zip, a level id, and a tag
\* that is none of the four
MapRefs ==
    { [dateAdded |-> 10, type |-> "Key", key |-> 31],
      [dateAdded |-> 20, type |-> "Hash", hash |-> <<171>>],
      [dateAdded |-> 10, type |-> "Hash", hash |-> <<16>>],
      [dateAdded |-> 20, type |-> "Zip"],
      [dateAdded |-> 10, type |-> "LevelID", levelID |-> "custom_level"],
      [dateAdded |-> 30, type |-> "Other"] }

\* sequences of at most n elements of S
SeqsUpTo(S, n) == UNION { [1..k -> S] : k \in 0..n }

Meta1 == [title |-> "Favourites", author |-> "me",
          description |-> "my maps", cover |-> <<137, 80>>]
Meta2 == [title |-> "", author |-> "you",
          description |-> "", cover |-> <<>>]
Metas == {Meta1, Meta2}

\* an IPlaylist
IPlaylist(meta, maps) ==
    [title |-> meta.title, author |-> meta.author,
     description |-> meta.description, cover |-> meta.cover, maps |-> maps]

\* a PlaylistLocalMap
LocalMap(dateAdded, online, error) ==
    [dateAdded |-> dateAdded, online |-> online, error |-> error]

-----------------------------------------------------------------------------
(* Paths and files *)

\* a path, as path.parse sees it: directory, base name without its last
\* extension, and that extension
Path(dir, name, ext) == [dir |-> dir, name |-> name, ext |-> ext]

\* the files Load is called on: a.json, a.blist and a (no extension)
SourcePaths == { Path("lists", "a", "json"),
                 Path("lists", "a", PLAYLIST_EXTENSION_NAME),
                 Path("lists", "a", "") }

\* ConvertPlaylistFile's newFilepath
NewFilepath(p) == Path(p.dir, p.name, PLAYLIST_EXTENSION_NAME)

AllPaths == SourcePaths \cup { NewFilepath(p) : p \in SourcePaths }

Absent == [tag |-> "absent"]

\* a Buffer of file content: whether it starts with the magic number, what
\* follows, and the playlist that text or body encodes
FileBuffer(magic, body, pl) == [magic |-> magic, body |-> body, playlist |-> pl]

\* serialize(playlist)
Serialize(pl) == FileBuffer(TRUE, "blister", pl)

\* a legacy JSON file whose text converts to pl
LegacyFile(pl) == FileBuffer(FALSE, "json", pl)

\* text that is neither: not JSON, no magic number
MalformedFile == FileBuffer(FALSE, "garbage", Unset)

\* the magic number followed by a body that does not deserialize
CorruptFile == FileBuffer(TRUE, "garbage", Unset)

\* an empty file
EmptyFile == FileBuffer(FALSE, "empty", Unset)

\* a binary playlist whose magic number is corrupted
BadMagicFile == FileBuffer(FALSE, "blister", Unset)

\* what a write that fails part-way leaves behind
PartialFiles == {MalformedFile, CorruptFile}

\* validateMagicNumber(buffer) does not throw
ValidMagicNumber(buf) == buf.magic

\* IsOldFormat with the results of its try and its catch exchanged
IsOldFormatExchanged(buf) == ValidMagicNumber(buf)

\* IsOldFormat(buffer)
IsOldFormat(buf) == ~ValidMagicNumber(buf)

\* JSON.parse and convertLegacyPlaylist do not throw
LegacyParses(buf) == buf.body = "json"

\* deserialize(buffer) does not throw
Deserializes(buf) == buf.body = "blister"

-----------------------------------------------------------------------------
(* The progress sink (Progress) *)

\* new Progress()
NewProgress == [status |-> NotStarted, total |-> 0, done |-> 0]

\* a sink the caller has used before, for a playlist of one map
UsedProgress == [status |-> Completed, total |-> 1, done |-> 1]

\* ProgressStarted with the status left as it was
ProgressStartedTotalOnly(sink, total) == [sink EXCEPT !.total = total]

\* ProgressStepped writing back a count read before the lookups were
\* awaited, when a fresh sink's done was 0: an increment is lost
ProgressSteppedFromStale(sink) == [sink EXCEPT !.done = 0 + 1]

\* `progress.status = ProgressStatus.Running; progress.total = ...length`
ProgressStarted(sink, total) ==
    [sink EXCEPT !.status = Running, !.total = total]

\* `progress.done += 1`, with no await between its read and its write
ProgressStepped(sink) == [sink EXCEPT !.done = @ + 1]

\* `progress.status = ProgressStatus.Completed`
ProgressCompleted(sink) == [sink EXCEPT !.status = Completed]

-----------------------------------------------------------------------------
(* The map resolver, ConvertToPlaylistLocal *)

\* OrNull without the `|| null`
OrNullDropped(value) == value

\* `value || null`
OrNull(value) == IF value = Undefined THEN Null ELSE value

\* the cases of the switch that await a catalog lookup
AwaitsLookup(type) == type \in {"Key", "Hash"}

\* the catalog's answer to the lookup a Key or Hash map issues
LookupAnswer(mapToConvert) ==
    IF mapToConvert.type = "Key"
    THEN GetBeatmapByKey(NumberToHex(mapToConvert.key))
    ELSE GetBeatmapByHash(BufferToHex(mapToConvert.hash))

\* ImportError with no error set in the default case
ImportErrorNoDefault(type) ==
    CASE type = "Zip" -> BeatmapTypeZipNotSupported
      [] type = "LevelID" -> BeatmapTypeLevelIdNotSupported
      [] OTHER -> NoError

\* ImportError with the errors of the Zip and LevelID cases exchanged
ImportErrorSwapped(type) ==
    CASE type = "Zip" -> BeatmapTypeLevelIdNotSupported
      [] type = "LevelID" -> BeatmapTypeZipNotSupported
      [] OTHER -> BeatmapTypeUnknown

\* the cases of the switch that set map.error
ImportError(type) ==
    CASE type = "Zip" -> BeatmapTypeZipNotSupported
      [] type = "LevelID" -> BeatmapTypeLevelIdNotSupported
      [] OTHER -> BeatmapTypeUnknown

\* a map task run up to its await, or to its end when its case awaits nothing
StartedTask(mapToConvert) ==
    IF AwaitsLookup(mapToConvert.type)
    THEN [state |-> "awaiting", lookups |-> 1, outcome |-> "none",
          map |-> LocalMap(mapToConvert.dateAdded, Undefined, NoError)]
    ELSE [state |-> "done", lookups |-> 0, outcome |-> "none",
          map |-> LocalMap(mapToConvert.dateAdded, Undefined,
                           ImportError(mapToConvert.type))]

\* a map task resumed with the value its lookup gave
ResumedTask(task, value, outcome) ==
    [state |-> "done", lookups |-> task.lookups, outcome |-> outcome,
     map |-> LocalMap(task.map.dateAdded, OrNull(value), task.map.error)]

\* JoinedMaps with the maps collected in the order the tasks completed
JoinedMapsByCompletion(ts, completion) ==
    [i \in 1..Len(ts) |-> ts[completion[i]].map]

\* what Promise.all resolves to: each task's map, at the task's index
JoinedMaps(ts, completion) == [i \in 1..Len(ts) |-> ts[i].map]

\* the indices of the tasks in a given state
TasksIn(state) == { i \in 1..Len(tasks) : tasks[i].state = state }

-----------------------------------------------------------------------------
(* The save-direction projection, ConvertToPlaylistBlister *)

\* HashOrEmpty reading the entry's key in place of its hash
HashOrEmptyOfKey(online) == IF online.tag = "entry" THEN online.key ELSE <<>>

\* `map.online?.hash || ''`
HashOrEmpty(online) == IF online.tag = "entry" THEN online.hash ELSE <<>>

\* BlisterMap dropping every map whose online is falsy (`!map.online`)
BlisterMapDropsNull(map) ==
    IF map.online = Undefined \/ map.online = Null
    THEN Undefined
    ELSE [dateAdded |-> map.dateAdded, type |-> "Hash",
          hash |-> BufferFromHex(ToLowerCase(map.online.hash))]

\* the callback of playlist.maps.map: undefined for a map without online
BlisterMap(map) ==
    IF map.online = Undefined
    THEN Undefined
    ELSE [dateAdded |-> map.dateAdded, type |-> "Hash",
          hash |-> BufferFromHex(ToLowerCase(HashOrEmpty(map.online)))]

IsDefined(value) == value # Undefined

ConvertToPlaylistBlister(p) ==
    [title |-> p.title, author |-> p.author, description |-> p.description,
     cover |-> p.cover,
     maps |-> SelectSeq([i \in 1..Len(p.maps) |-> BlisterMap(p.maps[i])],
                        IsDefined)]

-----------------------------------------------------------------------------
(* Save *)

\* how Save can end: all well, serialize throws, writeFile throws before it
\* has changed the file, writeFile throws after it has written part of it
SaveOutcomes == {"written", "serializeThrows", "writeThrows", "writeThrowsPartial"}

\* the filesystem after Save(path, p)
FsAfterSave(files, path, p, outcome, partial) ==
    CASE outcome = "written" ->
             [files EXCEPT ![path] = Serialize(ConvertToPlaylistBlister(p))]
      [] outcome = "writeThrowsPartial" -> [files EXCEPT ![path] = partial]
      [] OTHER -> files

\* what Save returns
SaveReturns(outcome) == outcome = "written"

-----------------------------------------------------------------------------
(* Load *)

\* ShouldConvert without the test of oldFormat
ShouldConvertAnyFormat(old, forceConvertIfNeeded) == forceConvertIfNeeded

\* Load: `if (oldFormat && forceConvertIfNeeded)`
ShouldConvert(old, forceConvertIfNeeded) == old /\ forceConvertIfNeeded

\* Load: `if (!await fs.pathExists(filepath)) return undefined`
LoadPathExists ==
    /\ pc = "Load"
    /\ IF fs[filepath] = Absent
       THEN /\ result' = Undefined
            /\ pc' = "returned"
       ELSE /\ result' = result
            /\ pc' = "readFile"
    /\ UNCHANGED <<peer, fs0, progress0>>
    /\ UNCHANGED <<fs, filepath, force, progress, buffer, oldFormat, playlist,
                   tasks, order, output, done, saveArg, saveRet,
                   blisterPlaylist>>

\* Load: readFile, which throws when the file is gone since pathExists
\* saw it, and IsOldFormat
LoadReadFile ==
    /\ pc = "readFile"
    /\ IF fs[filepath] = Absent
       THEN /\ buffer' = buffer
            /\ oldFormat' = oldFormat
            /\ pc' = "thrown"
       ELSE /\ buffer' = fs[filepath]
            /\ oldFormat' = IsOldFormat(fs[filepath])
            /\ pc' = "decode"
    /\ UNCHANGED <<peer, fs0, progress0>>
    /\ UNCHANGED <<fs, filepath, force, progress, playlist, tasks, order,
                   output, done, result, saveArg, saveRet, blisterPlaylist>>

\* LoadDecode with the legacy text parsed outside of any try/catch
LoadDecodeUncaught ==
    /\ pc = "decode"
    /\ IF (IF oldFormat THEN LegacyParses(buffer) ELSE Deserializes(buffer))
       THEN /\ playlist' = buffer.playlist
            /\ pc' = "ConvertToPlaylistLocal"
       ELSE /\ playlist' = playlist
            /\ pc' = "thrown"
    /\ UNCHANGED <<peer, fs0, progress0>>
    /\ UNCHANGED <<fs, filepath, force, progress, buffer, oldFormat, tasks,
                   order, output, done, result, saveArg, saveRet,
                   blisterPlaylist>>

\* Load: the legacy text parsed and converted inside try/catch, or the
\* binary buffer deserialized outside of any
LoadDecode ==
    /\ pc = "decode"
    /\ IF oldFormat
       THEN IF LegacyParses(buffer)
            THEN /\ playlist' = buffer.playlist
                 /\ result' = result
                 /\ pc' = "ConvertToPlaylistLocal"
            ELSE /\ playlist' = playlist
                 /\ result' = Undefined
                 /\ pc' = "returned"
       ELSE IF Deserializes(buffer)
            THEN /\ playlist' = buffer.playlist
                 /\ result' = result
                 /\ pc' = "ConvertToPlaylistLocal"
            ELSE /\ playlist' = playlist
                 /\ result' = result
                 /\ pc' = "thrown"
    /\ UNCHANGED <<peer, fs0, progress0>>
    /\ UNCHANGED <<fs, filepath, force, progress, buffer, oldFormat, tasks,
                   order, output, done, saveArg, saveRet, blisterPlaylist>>

\* ConvertToPlaylistLocal, up to the call of playlist.maps.map
ResolveBegin ==
    /\ pc = "ConvertToPlaylistLocal"
    /\ progress' = ProgressStarted(progress, Len(playlist.maps))
    /\ tasks' = <<>>
    /\ order' = <<>>
    /\ pc' = IF Len(playlist.maps) = 0 THEN "await" ELSE "dispatch"
    /\ UNCHANGED <<peer, fs0, progress0>>
    /\ UNCHANGED <<fs, filepath, force, buffer, oldFormat, playlist, output,
                   done, result, saveArg, saveRet, blisterPlaylist>>

\* playlist.maps.map calls the async callback on the next map, which runs to
\* its await, or to its end (progress.done += 1 included) when it has none
Dispatch ==
    /\ pc = "dispatch"
    /\ LET i == Len(tasks) + 1
           task == StartedTask(playlist.maps[i])
       IN /\ tasks' = Append(tasks, task)
          /\ IF task.state = "done"
             THEN /\ progress' = ProgressStepped(progress)
                  /\ order' = Append(order, i)
             ELSE /\ progress' = progress
                  /\ order' = order
          /\ pc' = IF i = Len(playlist.maps) THEN "await" ELSE "dispatch"
    /\ UNCHANGED <<peer, fs0, progress0>>
    /\ UNCHANGED <<fs, filepath, force, buffer, oldFormat, playlist, output,
                   done, result, saveArg, saveRet, blisterPlaylist>>

\* the lookup of an awaiting map task ends and the task runs to its end
LookupReturn ==
    /\ pc = "await"
    /\ \E i \in TasksIn("awaiting"), outcome \in LookupOutcomes :
          /\ tasks' = [tasks EXCEPT ![i] =
                 ResumedTask(tasks[i],
                             LookupValue(LookupAnswer(playlist.maps[i]), outcome),
                             outcome)]
          /\ order' = Append(order, i)
    /\ progress' = ProgressStepped(progress)
    /\ UNCHANGED <<peer, fs0, progress0>>
    /\ UNCHANGED <<fs, filepath, force, pc, buffer, oldFormat, playlist,
                   output, done, result, saveArg, saveRet, blisterPlaylist>>

\* Promise.all resolves, ConvertToPlaylistLocal returns, and Load goes on to
\* `if (oldFormat && forceConvertIfNeeded)`
ResolveJoin ==
    /\ pc = "await"
    /\ TasksIn("awaiting") = {}
    /\ output' = [title |-> playlist.title, author |-> playlist.author,
                  description |-> playlist.description,
                  cover |-> playlist.cover,
                  maps |-> JoinedMaps(tasks, order),
                  path |-> Undefined]
    /\ progress' = ProgressCompleted(progress)
    /\ pc' = IF ShouldConvert(oldFormat, force)
             THEN "ConvertPlaylistFile"
             ELSE "return"
    /\ UNCHANGED <<peer, fs0, progress0>>
    /\ UNCHANGED <<fs, filepath, force, buffer, oldFormat, playlist, tasks,
                   order, done, result, saveArg, saveRet, blisterPlaylist>>

\* ConvertPlaylistFile: Save to newFilepath
ConvertSave ==
    /\ pc = "ConvertPlaylistFile"
    /\ \E outcome \in SaveOutcomes, partial \in PartialFiles :
          /\ fs' = FsAfterSave(fs, NewFilepath(filepath), output, outcome, partial)
          /\ done' = SaveReturns(outcome)
          /\ pc' = IF SaveReturns(outcome) THEN "unlink" ELSE "return"
    /\ blisterPlaylist' = ConvertToPlaylistBlister(output)
    /\ UNCHANGED <<peer, fs0, progress0>>
    /\ UNCHANGED <<filepath, force, progress, buffer, oldFormat, playlist,
                   tasks, order, output, result, saveArg, saveRet>>

\* how unlink can end
UnlinkOutcomes == {"removed", "unlinkThrows"}

\* ConvertPlaylistFile: `if (done) await fs.unlink(filepath)`, in no try;
\* unlink throws when there is no file at filepath
ConvertUnlink ==
    /\ pc = "unlink"
    /\ \E outcome \in UnlinkOutcomes :
          IF outcome = "removed" /\ fs[filepath] # Absent
          THEN /\ fs' = [fs EXCEPT ![filepath] = Absent]
               /\ pc' = "return"
          ELSE /\ fs' = fs
               /\ pc' = "thrown"
    /\ UNCHANGED <<peer, fs0, progress0>>
    /\ UNCHANGED <<filepath, force, progress, buffer, oldFormat, playlist,
                   tasks, order, output, done, result, saveArg, saveRet,
                   blisterPlaylist>>

\* Load: `output.path = filepath; return output`
LoadReturn ==
    /\ pc = "return"
    /\ output' = [output EXCEPT !.path = filepath]
    /\ result' = [output EXCEPT !.path = filepath]
    /\ pc' = "returned"
    /\ UNCHANGED <<peer, fs0, progress0>>
    /\ UNCHANGED <<fs, filepath, force, progress, buffer, oldFormat, playlist,
                   tasks, order, done, saveArg, saveRet, blisterPlaylist>>

\* the process stops during the migration: while Save's writeFile is writing
\* newFilepath, or after Save has returned true and before unlink has run
Crash ==
    /\ pc \in {"ConvertPlaylistFile", "unlink"}
    /\ \E partial \in PartialFiles :
          fs' = IF pc = "ConvertPlaylistFile"
                THEN [fs EXCEPT ![NewFilepath(filepath)] = partial]
                ELSE fs
    /\ pc' = "crashed"
    /\ UNCHANGED <<peer, fs0, progress0>>
    /\ UNCHANGED <<filepath, force, progress, buffer, oldFormat, playlist,
                   tasks, order, output, done, result, saveArg, saveRet,
                   blisterPlaylist>>

\* a direct call Save(filepath, saveArg), followed by Load(filepath, ...)
SaveCall ==
    /\ pc = "Save"
    /\ \E outcome \in SaveOutcomes, partial \in PartialFiles :
          /\ fs' = FsAfterSave(fs, filepath, saveArg, outcome, partial)
          /\ saveRet' = SaveReturns(outcome)
    /\ blisterPlaylist' = ConvertToPlaylistBlister(saveArg)
    /\ pc' = "Load"
    /\ UNCHANGED <<peer, fs0, progress0>>
    /\ UNCHANGED <<filepath, force, progress, buffer, oldFormat, playlist,
                   tasks, order, output, done, result, saveArg>>

-----------------------------------------------------------------------------
(* Specifications *)

\* the files a Load may find at its path
SourceFiles ==
    { LegacyFile(IPlaylist(Meta1, maps)) : maps \in SeqsUpTo(MapRefs, MaxMaps) }
      \cup { Serialize(IPlaylist(Meta1, maps)) : maps \in SeqsUpTo(MapRefs, MaxMaps) }
      \cup { MalformedFile, CorruptFile, EmptyFile, BadMagicFile, Absent }

\* a binary playlist that may already lie at the path Save writes to
OtherFile == Serialize(IPlaylist(Meta2, <<>>))

\* the filesystem with src at path p and other at path q
Files(p, src, q, other) ==
    [f \in AllPaths |-> IF f = p THEN src ELSE IF f = q THEN other ELSE Absent]

LocalsUnset ==
    /\ buffer = Unset
    /\ oldFormat = FALSE
    /\ playlist = Unset
    /\ tasks = <<>>
    /\ order = <<>>
    /\ output = Unset
    /\ done = FALSE
    /\ result = Unset
    /\ saveRet = FALSE
    /\ blisterPlaylist = Unset
    /\ fs0 = fs
    /\ progress0 = progress

\* a call of Load on a path that may hold a file of any kind
Init ==
    /\ filepath \in SourcePaths
    /\ force \in BOOLEAN
    /\ progress \in {NewProgress, UsedProgress}
    /\ fs \in { Files(filepath, src, NewFilepath(filepath), other) :
                  src \in SourceFiles, other \in {Absent, OtherFile} }
    /\ pc = "Load"
    /\ saveArg = Unset
    /\ peer = Unset
    /\ LocalsUnset

Next ==
    \/ LoadPathExists
    \/ LoadReadFile
    \/ LoadDecode
    \/ ResolveBegin
    \/ Dispatch
    \/ LookupReturn
    \/ ResolveJoin
    \/ ConvertSave
    \/ ConvertUnlink
    \/ LoadReturn

Spec == Init /\ [][Next]_vars

\* a call of Load during which the process may stop
NextCrash == Next \/ Crash

SpecCrash == Init /\ [][NextCrash]_vars

\* PlaylistLocalMap values: two resolved maps (the first with its hash in
\* upper case), a resolved map the catalog does not hold, a map looked up
\* and not found, and two maps with an error and no online
LocalMaps ==
    { LocalMap(10, Entry(<<"1", "f">>, <<"A", "b">>), NoError),
      LocalMap(20, Entry(<<"2">>, <<"0", "1">>), NoError),
      LocalMap(30, Entry(<<"3">>, <<"c", "d">>), NoError),
      LocalMap(30, Null, NoError),
      LocalMap(20, Undefined, BeatmapTypeZipNotSupported),
      LocalMap(10, Undefined, BeatmapTypeUnknown) }

\* the PlaylistLocal values Save is called with
LocalPlaylists ==
    { [title |-> meta.title, author |-> meta.author,
       description |-> meta.description, cover |-> meta.cover,
       maps |-> maps, path |-> Undefined] :
          meta \in Metas, maps \in SeqsUpTo(LocalMaps, MaxMaps) }

\* the path of the direct call of Save
SavedPath == Path("lists", "a", PLAYLIST_EXTENSION_NAME)

\* a call of Save on a playlist of any kind, then a call of Load on its path
InitSaveLoad ==
    /\ filepath = SavedPath
    /\ force \in BOOLEAN
    /\ progress \in {NewProgress, UsedProgress}
    /\ fs \in { Files(filepath, other, filepath, other) :
                  other \in {Absent, OtherFile} }
    /\ pc = "Save"
    /\ saveArg \in LocalPlaylists
    /\ peer = Unset
    /\ LocalsUnset

NextSaveLoad ==
    \/ SaveCall
    \/ LoadPathExists
    \/ LoadReadFile
    \/ LoadDecode
    \/ ResolveBegin
    \/ Dispatch
    \/ LookupReturn
    \/ ResolveJoin
    \/ LoadReturn

SpecSaveLoad == InitSaveLoad /\ [][NextSaveLoad]_vars

\* the locals of the running call of Load, and its progress sink
CallLocals ==
    [pc |-> pc, buffer |-> buffer, oldFormat |-> oldFormat,
     playlist |-> playlist, tasks |-> tasks, order |-> order,
     output |-> output, done |-> done, result |-> result,
     blisterPlaylist |-> blisterPlaylist, progress |-> progress]

\* a call of Load that has not run yet, with a Progress of its own
CallNotStarted ==
    [pc |-> "Load", buffer |-> Unset, oldFormat |-> FALSE,
     playlist |-> Unset, tasks |-> <<>>, order |-> <<>>,
     output |-> Unset, done |-> FALSE, result |-> Unset,
     blisterPlaylist |-> Unset, progress |-> NewProgress]

\* the running call is suspended at an await, or has ended, and the event
\* loop goes on with the other call. There is no await from the legacy
\* text's JSON.parse up to ConvertToPlaylistLocal's `await Promise.all`.
Switch ==
    /\ peer # Unset
    /\ pc \notin {"ConvertToPlaylistLocal", "dispatch"}
    /\ ~(pc = "decode" /\ oldFormat)
    /\ peer' = CallLocals
    /\ pc' = peer.pc
    /\ buffer' = peer.buffer
    /\ oldFormat' = peer.oldFormat
    /\ playlist' = peer.playlist
    /\ tasks' = peer.tasks
    /\ order' = peer.order
    /\ output' = peer.output
    /\ done' = peer.done
    /\ result' = peer.result
    /\ blisterPlaylist' = peer.blisterPlaylist
    /\ progress' = peer.progress
    /\ UNCHANGED <<fs, filepath, force, saveArg, saveRet, fs0, progress0>>

\* two calls Load(filepath, true), each with a Progress of its own, on a
\* path that holds a legacy playlist
InitTwoLoads ==
    /\ filepath \in SourcePaths
    /\ force = TRUE
    /\ progress = NewProgress
    /\ fs \in { Files(filepath, LegacyFile(IPlaylist(Meta1, maps)),
                      NewFilepath(filepath), other) :
                  maps \in SeqsUpTo(MapRefs, MaxMaps),
                  other \in {Absent, OtherFile} }
    /\ pc = "Load"
    /\ saveArg = Unset
    /\ peer = CallNotStarted
    /\ LocalsUnset

\* the steps of the two calls, on a disk that does not fail: Save writes
\* its file and returns true, and unlink removes a file that is there
NextTwoLoads ==
    \/ LoadPathExists
    \/ LoadReadFile
    \/ LoadDecode
    \/ ResolveBegin
    \/ Dispatch
    \/ LookupReturn
    \/ ResolveJoin
    \/ ConvertSave /\ done'
    \/ ConvertUnlink /\ (fs[filepath] # Absent => pc' = "return")
    \/ LoadReturn
    \/ Switch

SpecTwoLoads == InitTwoLoads /\ [][NextTwoLoads]_vars

-----------------------------------------------------------------------------
(* Properties *)

\* ConvertToPlaylistLocal has returned
ResolverReturned == output # Unset

\* Save has run (as the migration's Save, or as the direct call)
SaveRan == blisterPlaylist # Unset

\* a legacy-format file lies at path p
HoldsLegacy(p) == fs[p] # Absent /\ IsOldFormat(fs[p])

\* the input maps and the resolved maps
InputMaps == playlist.maps
Indices == 1..Len(tasks)

\* C1: a forced-conversion Load of a legacy file whose migration Save
\* succeeds ends with the legacy file deleted and the binary playlist
\* present at the derived path, whatever the name of the source file.
C1_MigrationLeavesBinary ==
    (pc = "returned" /\ oldFormat /\ force /\ SaveRan /\ done) =>
        /\ ~HoldsLegacy(filepath)
        /\ fs[NewFilepath(filepath)] = Serialize(blisterPlaylist)

\* C2: the legacy file is deleted only after the migration's Save reported
\* success; when that Save reports failure the legacy file is as Load read
\* it, nothing is thrown and Load returns the loaded playlist.
C2_FailedSaveLeavesLegacy ==
    /\ (buffer # Unset /\ fs[filepath] = Absent) => (SaveRan /\ done)
    /\ (oldFormat /\ force /\ SaveRan /\ ~done) =>
          /\ fs[filepath] = buffer
          /\ pc \in {"return", "returned"}
          /\ pc = "returned" => (result = output /\ result.path = filepath)

\* C3: Load never ends with an exception.
C3_LoadNeverThrows == pc # "thrown"

\* C4: a Key or Hash map whose lookup failed has online null and no error,
\* as a map that was not found has; the maps whose lookups were answered
\* hold the catalog's answer; and Load, when it returns, returns the
\* playlist with all of its maps.
C4_FailedLookupIsNull ==
    /\ \A i \in Indices :
          /\ tasks[i].outcome = "failed" =>
                tasks[i].map = LocalMap(InputMaps[i].dateAdded, Null, NoError)
          /\ tasks[i].outcome = "answered" =>
                tasks[i].map.online \in {Null, LookupAnswer(InputMaps[i])}
    /\ (pc = "returned" /\ ResolverReturned) =>
          /\ result # Undefined
          /\ Len(result.maps) = Len(InputMaps)
          /\ \A i \in Indices :
                tasks[i].outcome = "failed" => result.maps[i].online = Null

\* C4's case: Load has returned a playlist one of whose lookups failed and
\* another of whose lookups found its entry
C4_Witness ==
    /\ pc = "returned"
    /\ ResolverReturned
    /\ \E i, j \in Indices :
          /\ tasks[i].outcome = "failed"
          /\ result.maps[i].online = Null
          /\ tasks[j].outcome = "answered"
          /\ result.maps[j].online.tag = "entry"

\* C5: once the resolver has returned, progress.done and progress.total both
\* equal the number of input maps and the status is Completed, whatever
\* sink the caller passed.
C5_ProgressDoneEqualsTotal ==
    ResolverReturned =>
        /\ progress.done = Len(InputMaps)
        /\ progress.total = Len(InputMaps)
        /\ progress.status = Completed

\* C6: once the resolver has returned, there is one output map per input
\* map, and each has either online (an entry or null) or error, never both
\* and never neither.
C6_OnlineXorError ==
    ResolverReturned =>
        /\ Len(output.maps) = Len(InputMaps)
        /\ \A i \in 1..Len(output.maps) :
              LET map == output.maps[i]
              IN /\ (map.online # Undefined) # (map.error # NoError)
                 /\ map.online # Undefined =>
                       (map.online = Null \/ map.online \in Catalog)
                 /\ map.error # NoError =>
                       map.error \in {BeatmapTypeZipNotSupported,
                                      BeatmapTypeLevelIdNotSupported,
                                      BeatmapTypeUnknown}

\* C6's case: the resolver has returned a resolved map and a map in error
C6_Witness ==
    /\ ResolverReturned
    /\ \E i, j \in 1..Len(output.maps) :
          /\ output.maps[i].online.tag = "entry"
          /\ output.maps[j].error # NoError

\* the map of input i, in the task and, once the resolver has returned, in
\* the output
ResolvedMaps(i) ==
    {tasks[i].map} \cup (IF ResolverReturned THEN {output.maps[i]} ELSE {})

\* C7: a Zip map always gets the zip error, a LevelID map the level-id
\* error, a map of any other tag than Key, Hash, Zip, LevelID the
\* unknown-type error; none of them gets an online value or issues a
\* lookup; a Key or Hash map issues exactly one lookup.
C7_DispatchByTag ==
    \A i \in Indices :
        LET type == InputMaps[i].type
        IN /\ type = "Zip" =>
                 \A map \in ResolvedMaps(i) :
                     map.error = BeatmapTypeZipNotSupported
           /\ type = "LevelID" =>
                 \A map \in ResolvedMaps(i) :
                     map.error = BeatmapTypeLevelIdNotSupported
           /\ type \notin {"Key", "Hash", "Zip", "LevelID"} =>
                 \A map \in ResolvedMaps(i) :
                     map.error = BeatmapTypeUnknown
           /\ type \notin {"Key", "Hash"} =>
                 /\ tasks[i].lookups = 0
                 /\ \A map \in ResolvedMaps(i) : map.online = Undefined
           /\ type \in {"Key", "Hash"} => tasks[i].lookups = 1

\* C7's case: the resolver has returned for a playlist of a LevelID or Zip
\* map and a Key or Hash map
C7_Witness ==
    /\ ResolverReturned
    /\ \E i, j \in Indices :
          /\ InputMaps[i].type \in {"Zip", "LevelID"}
          /\ output.maps[i].error # NoError
          /\ InputMaps[j].type \in {"Key", "Hash"}
          /\ tasks[j].lookups = 1

\* C8: the resolver's output is in input order: entry i carries the
\* dateAdded of input i and the outcome of input i's tag and lookup,
\* whatever the order the lookups completed in.
C8_OutputInInputOrder ==
    ResolverReturned =>
        /\ Len(output.maps) = Len(InputMaps)
        /\ \A i \in 1..Len(output.maps) :
              LET map == output.maps[i]
                  in == InputMaps[i]
              IN /\ map.dateAdded = in.dateAdded
                 /\ (map.error = NoError) = (in.type \in {"Key", "Hash"})
                 /\ map.error # NoError => map.error = ImportError(in.type)
                 /\ map.online.tag = "entry" => map.online = LookupAnswer(in)

\* C8's case: the resolver has returned after two lookups of maps with
\* different dates completed in the reverse of the input order
C8_Witness ==
    /\ ResolverReturned
    /\ order = <<2, 1>>
    /\ tasks[1].lookups = 1
    /\ tasks[2].lookups = 1
    /\ InputMaps[1].dateAdded # InputMaps[2].dateAdded
    /\ output.maps[1].dateAdded = InputMaps[1].dateAdded

\* the indices of the maps of p that have an online value, and the place
\* of such a map among them
Kept(p) == { i \in 1..Len(p.maps) : p.maps[i].online # Undefined }
Rank(p, i) == Cardinality({ j \in Kept(p) : j <= i })

\* C9: the projection Save computes copies title, author, description and
\* cover; it has one entry per map whose online is present (null or an
\* entry) and none for a map whose online is undefined, in input order;
\* each entry is tagged Hash, carries its map's dateAdded and, for a
\* resolved map, the bytes of its entry's hash in lower case.
C9_ProjectionDropsUndefined ==
    (SaveRan /\ saveArg # Unset) =>
        /\ blisterPlaylist.title = saveArg.title
        /\ blisterPlaylist.author = saveArg.author
        /\ blisterPlaylist.description = saveArg.description
        /\ blisterPlaylist.cover = saveArg.cover
        /\ Len(blisterPlaylist.maps) = Cardinality(Kept(saveArg))
        /\ \A i \in Kept(saveArg) :
              LET from == saveArg.maps[i]
                  to == blisterPlaylist.maps[Rank(saveArg, i)]
              IN /\ to.type = "Hash"
                 /\ to.dateAdded = from.dateAdded
                 /\ from.online = Null => to.hash = <<>>
                 /\ from.online # Null =>
                       BufferToHex(to.hash) = ToLowerCase(from.online.hash)
        /\ saveRet => fs[filepath] = Serialize(blisterPlaylist)

\* C9's case: Save has projected a playlist of a map without online and a
\* resolved map with an upper-case hash
C9_Witness ==
    /\ SaveRan
    /\ saveArg # Unset
    /\ Len(saveArg.maps) = 2
    /\ saveArg.maps[1].online = Undefined
    /\ saveArg.maps[2].online.tag = "entry"
    /\ saveArg.maps[2].online.hash # ToLowerCase(saveArg.maps[2].online.hash)
    /\ Len(blisterPlaylist.maps) = 1
    /\ blisterPlaylist.maps[1].dateAdded = saveArg.maps[2].dateAdded

\* every map of p is resolved to an entry, with no error
OnlyResolved(p) ==
    \A i \in 1..Len(p.maps) :
        p.maps[i].online.tag = "entry" /\ p.maps[i].error = NoError

\* the catalog resolves the hash of every map of p to the map's entry, and
\* did so in every lookup of this Load
CatalogResolves(p) ==
    /\ \A i \in 1..Len(p.maps) :
          GetBeatmapByHash(ToLowerCase(p.maps[i].online.hash)) = p.maps[i].online
    /\ \A i \in Indices : tasks[i].outcome = "answered"

\* C10: for a playlist of resolved maps only, whose hashes the catalog
\* resolves to the same entries, a successful Save followed by Load of the
\* same path returns a playlist with the same title, author, description,
\* cover and sequence of (dateAdded, hash), all maps resolved, none in error.
C10_RoundTrip ==
    (/\ pc = "returned"
     /\ saveArg # Unset
     /\ saveRet
     /\ OnlyResolved(saveArg)
     /\ CatalogResolves(saveArg)) =>
        /\ result # Undefined
        /\ result.title = saveArg.title
        /\ result.author = saveArg.author
        /\ result.description = saveArg.description
        /\ result.cover = saveArg.cover
        /\ Len(result.maps) = Len(saveArg.maps)
        /\ \A i \in 1..Len(result.maps) :
              /\ result.maps[i].dateAdded = saveArg.maps[i].dateAdded
              /\ result.maps[i].online.tag = "entry"
              /\ result.maps[i].online.hash = saveArg.maps[i].online.hash
              /\ result.maps[i].error = NoError

\* C10's case: Load has returned after a successful Save of two resolved
\* maps of different dates, the first with an upper-case hash
C10_Witness ==
    /\ pc = "returned"
    /\ saveArg # Unset
    /\ saveRet
    /\ Len(saveArg.maps) = 2
    /\ OnlyResolved(saveArg)
    /\ CatalogResolves(saveArg)
    /\ saveArg.maps[1].online.hash # ToLowerCase(saveArg.maps[1].online.hash)
    /\ saveArg.maps[1].dateAdded # saveArg.maps[2].dateAdded
    /\ result.maps[1].online = saveArg.maps[1].online

\* there was no file at Load's path
NoSource == fs0[filepath] = Absent

\* the file at Load's path had no valid magic number and no text that
\* parses as a legacy playlist
UnparseableSource ==
    /\ fs0[filepath] # Absent
    /\ ~fs0[filepath].magic
    /\ fs0[filepath].body # "json"

\* C11: Load of a path with no file, or of a legacy-classified file that
\* does not parse, never throws, never enters the resolver (no lookup, the
\* progress sink as it was), leaves every file as it was and returns
\* undefined, with forced conversion or without.
C11_NoResultNoEffect ==
    (NoSource \/ UnparseableSource) =>
        /\ pc \in {"Load", "readFile", "decode", "returned"}
        /\ pc = "returned" => result = Undefined
        /\ tasks = <<>>
        /\ progress = progress0
        /\ fs = fs0
        /\ ~SaveRan

\* C11's case: a forced-conversion Load of a legacy-classified file that
\* does not parse has returned
C11_Witness ==
    /\ UnparseableSource
    /\ force
    /\ oldFormat
    /\ pc = "returned"
    /\ result = Undefined

\* C12: Save throws nothing; it returns true only when the projection, the
\* encoding and the write all succeeded, and then the file holds the
\* serialized projection; when it returns false the file at the target path
\* (or its absence) is as it was before the call.
C12_SaveAllOrNothing ==
    (saveArg # Unset /\ pc # "Save") =>
        /\ pc # "thrown"
        /\ saveRet =>
              fs[filepath] = Serialize(ConvertToPlaylistBlister(saveArg))
        /\ ~saveRet => fs[filepath] = fs0[filepath]

\* the file at Load's path was classified legacy (it had no valid magic
\* number)
LegacySource == fs0[filepath] # Absent /\ ~fs0[filepath].magic

\* C13: the migration's Save runs only in a Load that classified its source
\* legacy and was called with forced conversion; in any other Load (a
\* binary source, or no forced conversion) no file is written, created or
\* deleted.
C13_MigrationOnlyWhenForcedLegacy ==
    saveArg = Unset =>
        /\ SaveRan => (oldFormat /\ force /\ LegacySource)
        /\ ~(LegacySource /\ force) => (fs = fs0 /\ ~SaveRan)

\* C13's case: a Load without forced conversion has returned the playlist of
\* a legacy file
C13_Witness ==
    /\ pc = "returned"
    /\ LegacySource
    /\ oldFormat
    /\ ~force
    /\ result # Undefined
    /\ Len(result.maps) > 0
    /\ fs = fs0

\* C14: the format detector answers for every buffer, without throwing and
\* without touching a file or the progress sink: non-legacy exactly when the
\* buffer starts with the valid magic number, legacy for every other buffer
\* (corrupted marker, no marker, empty buffer, legacy JSON text).
C14_DetectorFollowsMarker ==
    /\ buffer # Unset =>
          /\ buffer = fs0[filepath]
          /\ oldFormat = ~buffer.magic
          /\ buffer \in {EmptyFile, BadMagicFile, MalformedFile} => oldFormat
          /\ buffer.body = "json" => oldFormat
    /\ pc = "decode" => (fs = fs0 /\ progress = progress0)
    /\ (saveArg = Unset /\ pc = "thrown") =>
          (buffer # Unset /\ (buffer.magic \/ done))

\* C14's case: the detector has classified an empty buffer as legacy
C14_Witness ==
    /\ pc = "decode"
    /\ buffer = EmptyFile
    /\ oldFormat

\* the resolver is running: it has set the sink up and has not returned
InResolver == pc \in {"dispatch", "await"}

\* C15: while map tasks run the sink's status is Running and its total the
\* number of maps, both set before the first task starts; done has grown by
\* one for each entry completed so far, whatever its outcome; the status is
\* never Completed while an entry is pending, and is Completed once the
\* resolver has returned with every entry completed.
C15_ProgressOrdered ==
    /\ (pc \in {"Load", "readFile", "decode", "ConvertToPlaylistLocal"}
           /\ saveArg = Unset) =>
          (tasks = <<>> /\ progress = progress0)
    /\ InResolver =>
          /\ progress.status = Running
          /\ progress.total = Len(InputMaps)
    /\ (InResolver \/ ResolverReturned) =>
          /\ progress.done = progress0.done + Len(order)
          /\ Len(order) = Cardinality(TasksIn("done"))
    /\ (playlist # Unset /\ pc # "ConvertToPlaylistLocal"
           /\ progress.status = Completed) =>
          (Len(order) = Len(InputMaps) /\ TasksIn("awaiting") = {})
    /\ ResolverReturned =>
          /\ progress.status = Completed
          /\ TasksIn("awaiting") = {}
          /\ Len(tasks) = Len(InputMaps)

\* C15's case: one entry has completed while another still awaits its lookup
C15_Witness ==
    /\ pc = "await"
    /\ Len(order) = 1
    /\ TasksIn("awaiting") # {}
    /\ progress.status = Running
    /\ progress.total = 2
    /\ progress.done = progress0.done + 1

\* C16: with a sink whose done starts at 0, done is in every state the
\* number of entries completed so far and never more than total, in every
\* order the lookups complete in.
C16_DoneCountsCompleted ==
    (progress0.done = 0 /\ progress0.total = 0) =>
        /\ progress.done = Cardinality(TasksIn("done"))
        /\ progress.done <= progress.total

\* C16's case: with a sink whose done started at 0, two lookups have
\* completed in the reverse of the input order
C16_Witness ==
    /\ progress0.done = 0
    /\ order = <<2, 1>>
    /\ tasks[1].lookups = 1
    /\ tasks[2].lookups = 1
    /\ progress.done = 2

\* a binary playlist that deserializes lies at path p
HoldsBinary(p) ==
    fs[p] # Absent /\ ValidMagicNumber(fs[p]) /\ Deserializes(fs[p])

\* Load was called with forced conversion on a legacy file that parses
ForcedLegacy == LegacySource /\ fs0[filepath].body = "json" /\ force

\* C17: in a forced-conversion Load of a legacy file, a stop of the process
\* between the start of the migration's write and the deletion of the
\* legacy file leaves the legacy file and a file at the derived path both
\* present; and in no state are the legacy source and the binary file at
\* the derived path both absent.
C17_CrashLeavesBoth ==
    ForcedLegacy =>
        /\ pc = "crashed" =>
              (HoldsLegacy(filepath) /\ fs[NewFilepath(filepath)] # Absent)
        /\ HoldsLegacy(filepath) \/ HoldsBinary(NewFilepath(filepath))

\* C18: whenever Load returns a playlist, a file exists at the returned
\* playlist's path, also after a forced conversion that deleted the legacy
\* source.
C18_ReturnedPathExists ==
    (pc = "returned" /\ result # Undefined) => fs[result.path] # Absent

\* entry e of a binary playlist still identifies input map in: it has the
\* map's dateAdded and the map's hash, or, for a map given by key, the hash
\* of the catalog's entry of that key
Identifies(e, in) ==
    /\ e.dateAdded = in.dateAdded
    /\ CASE in.type = "Hash" -> e.hash = in.hash
         [] in.type = "Key" ->
                LET entry == GetBeatmapByKey(NumberToHex(in.key))
                IN /\ entry # Undefined
                   /\ e.hash = BufferFromHex(ToLowerCase(entry.hash))
         [] OTHER -> FALSE

\* C19: once the migration's Save has succeeded, the binary file it wrote
\* holds, for every map of the legacy playlist, whatever the outcome of its
\* lookup, an entry that still identifies the map.
C19_MigrationKeepsEveryMap ==
    (saveArg = Unset /\ oldFormat /\ force /\ SaveRan /\ done) =>
        /\ pc = "unlink" =>
              fs[NewFilepath(filepath)] = Serialize(blisterPlaylist)
        /\ \A i \in 1..Len(InputMaps) :
              \E k \in 1..Len(blisterPlaylist.maps) :
                  Identifies(blisterPlaylist.maps[k], InputMaps[i])

\* C20: of two forced Loads of one legacy file that run interleaved, neither
\* raises, each returns a playlist, with the maps of the legacy file in their
\* order, and once both have returned the derived path holds a binary file.
C20_TwoLoadsBothReturn ==
    peer # Unset =>
        /\ pc # "thrown" /\ peer.pc # "thrown"
        /\ pc = "returned" =>
              /\ result # Undefined
              /\ Len(result.maps) = Len(fs0[filepath].playlist.maps)
        /\ peer.pc = "returned" =>
              /\ peer.result # Undefined
              /\ Len(peer.result.maps) = Len(fs0[filepath].playlist.maps)
        /\ (pc = "returned" /\ peer.pc = "returned") =>
              HoldsBinary(NewFilepath(filepath))

=============================================================================
